---- MODULE Spec2Model ----
(***************************************************************************)
(* The coordinator of src/server.py: ClientManager (the client registry    *)
(* and the per-client command queues), its resource monitor thread, the    *)
(* reaper sweep and the heartbeat request handler.                         *)
(*                                                                         *)
(* Every ClientManager method runs its whole body under self._lock (an     *)
(* RLock), so each method is one atomic action.  api_heartbeat takes the   *)
(* lock twice (update_heartbeat, then get_command), so it is two steps of  *)
(* a worker thread.  The monitor thread takes no lock and writes the       *)
(* three entries of system_resources one after the other, so it is three   *)
(* steps.  background_tasks takes the lock once for the sweep and once     *)
(* for the status read, so it is two steps.  Time is in whole seconds.     *)
(*                                                                         *)
(* Four specifications share the state: Spec (the client lifecycle as      *)
(* time passes), SpecAdmit (register calls against the monitor thread),    *)
(* SpecQueue (the command queues, the clock standing still) and SpecLock   *)
(* (the lock section of register_client in separate steps, against the     *)
(* handler that lists the clients without the lock).                       *)
(***************************************************************************)
EXTENDS Integers, Sequences, FiniteSets, TLC

\* ------------------------------------------------------------- constants
\* client_manager = ClientManager(max_clients=50), scaled down
max_clients == 2
\* len(self.commands_queue[client_id]) < 10
QueueLimit == 10
\* system_resources['cpu_usage'] > 80
CpuLimit == 80
\* system_resources['memory_usage'] > 85
MemoryLimit == 85
\* cleanup_inactive_clients(self, timeout_seconds=300)
timeout_seconds == 300
\* rate_limiter = ConnectionRateLimiter(max_connections_per_minute=100), scaled down
max_connections == 3
\* if current_time - t < 60
Window == 60

\* ---------------------------------------------------------------- bounds
\* clock advances per behaviour
MaxTicks == 2
\* commands submitted to one registered client per behaviour
MaxSend == 12
\* commands submitted to an identifier that never registers
MaxSendUnknown == 1
\* commands submitted to a client per behaviour while the clock runs
MaxSendReap == 2
\* api_send_command requests per client: one more than fills a queue
MaxSendFull == 11
\* ticks back the history tells the age of a snapshot field apart
MaxAge == 2
\* commands submitted to the second of two clients per behaviour
MaxSendOther == 2

\* identifiers agents register with (lifecycle and admission specifications)
ClientIds == {"c1", "c2", "c3"}
\* identifiers of the queue specification: one that registers, one that never does
QueueIds == {"c1"}
UnknownIds == {"zz"}
AllIds == ClientIds \cup QueueIds \cup UnknownIds
\* request.remote_addr and the hostname field of the register request
Ips == {"10.0.0.7"}
Hostnames == {"hostA"}
\* the command field of the operator's request
CommandNames == {"screenshot"}
\* the command field of the requests to the command endpoint; "" is a request
\* without one
SendNames == CommandNames \cup {""}
\* request-handling worker threads of the threaded Flask server
Workers == {"w1", "w2"}
\* the request thread serving api_send_command
SendWorkers == {"w1"}
\* values psutil may report
CpuSamples == {CpuLimit, CpuLimit + 1}
MemorySamples == {MemoryLimit, MemoryLimit + 1}
\* seconds the clock may jump at once
Deltas == {1, timeout_seconds}
\* seconds the clock may jump at once where the rate limiter runs
RateDeltas == {1, Window}
\* client_id fields of the register requests there; "" is a request without one
RateIds == {"c1", ""}
\* client_id fields of the register requests where the clock stands still
RegisterIds == {"c1", "c2", ""}
\* client_id fields that are JSON values other than strings: "#7" stands for
\* the number 7 of the body {"client_id": 7}, which 'not client_id' lets pass
NumberIds == {"#7"}
\* client_id fields of the register requests of any JSON type
JsonIds == RegisterIds \cup NumberIds
\* identifiers of the liveness specification
LiveIds == {"c1", "c2"}
\* the two clients of the isolation specification, and the number of commands
\* submitted to each: enough to overfill the queue of the first
PairIds == {"c1", "c2"}
SendLimit(c) == IF c = "c1" THEN MaxSendFull ELSE MaxSendOther
\* the identifier of the locking specification
LockIds == {"c1"}
\* agents that send register requests there: request.remote_addr and hostname
Agents == {[ip |-> "10.0.0.7", hostname |-> "hostA"],
           [ip |-> "10.0.0.8", hostname |-> "hostB"]}

\* Python's None
None == [none |-> TRUE]

VARIABLES
    clients,           \* ClientManager.clients: client_id -> ClientInfo
    commands_queue,    \* ClientManager.commands_queue: client_id -> list of commands
    system_resources,  \* ClientManager.system_resources
    mon,               \* the monitor thread's position in its loop body
    bg,                \* the background_tasks thread's position in its loop body
    hb,                \* per worker: its position in api_heartbeat
    now,               \* datetime.now(), in seconds
    ticks,             \* number of clock advances so far
    nsent,             \* per client: number of commands submitted for it so far
    ret,               \* the last call that returned: [op, cid, arg, val]
    appended,          \* history: per client, the commands add_command appended
    delivered,         \* history: per client, the commands get_command returned
    burst,             \* history: per client, add_command calls since its last get_command
    drain,             \* history: per client, the queue a burst beyond the limit left
                       \*   and the commands the get_command calls after it returned
    revived,           \* history: clients update_heartbeat took from offline to online
    lock,              \* ClientManager._lock: the worker that holds it, or "free"
    req,               \* per worker: the request it is serving, where the lock
                       \*   section is entered and left in separate steps
    connection_times,  \* ConnectionRateLimiter.connection_times
    allowed,           \* history: the times of the allow_connection calls that
                       \*   returned True
    denied,            \* history: the time of the last allow_connection call that
                       \*   returned False, -1 before the first
    mtick,             \* history of the monitor thread's ticks, None where it is
                       \*   not recorded: [age, before] or [beat, fail]
    btick,             \* history of the rounds of background_tasks, None where
                       \*   it is not recorded: [beat, fail]
    rate_lock,         \* ConnectionRateLimiter._lock: the worker that holds it, or
                       \*   "free"
    held               \* recursion level of ClientManager._lock (an RLock) where
                       \*   its sections are entered and left in separate steps

vars == <<clients, commands_queue, system_resources, mon, bg, hb, now, ticks, nsent,
          ret, appended, delivered, burst, drain, revived, lock, req,
          connection_times, allowed, denied, mtick, btick, rate_lock, held>>

\* --------------------------------------------------------------- helpers
\* d[k] = v for a Python dict d (inserts or overwrites)
Put(d, k, v) == [x \in (DOMAIN d) \cup {k} |-> IF x = k THEN v ELSE d[x]]

\* ClientInfo(client_id, ip, hostname, last_seen=now, connection_time=now)
ClientInfo(c, ip, hostname, t) ==
    [client_id |-> c, ip |-> ip, hostname |-> hostname, last_seen |-> t,
     status |-> "online", connection_time |-> t, resource_usage |-> 0,
     commands_processed |-> 0]

\* len([c for c in self.clients.values() if c.status == 'online'])
ActiveClients(cl) == Cardinality({c \in DOMAIN cl : cl[c].status = "online"})

\* can_accept_client with '>' for '>=' in the capacity test
CanAcceptClientOffByOne(cl, res) ==
    /\ ~(ActiveClients(cl) > max_clients)
    /\ ~(res.cpu_usage > CpuLimit \/ res.memory_usage > MemoryLimit)

\* can_accept_client with '>=' for '>' in the two resource tests
CanAcceptClientInclusive(cl, res) ==
    /\ ~(ActiveClients(cl) >= max_clients)
    /\ ~(res.cpu_usage >= CpuLimit \/ res.memory_usage >= MemoryLimit)

\* ClientManager.can_accept_client
CanAcceptClient(cl, res) ==
    /\ ~(ActiveClients(cl) >= max_clients)
    /\ ~(res.cpu_usage > CpuLimit \/ res.memory_usage > MemoryLimit)

\* commands_queue[client_id] read through the defaultdict
QueueOf(q, c) == IF c \in DOMAIN q THEN q[c] ELSE <<>>

\* the dict api_send_command builds.  The operator's n-th request for a client
\* carries payload n, so that the commands of one client are pairwise distinct
\* and a reordering or a second delivery shows.
Command(name, n, t) == [command |-> name, data |-> n, timestamp |-> t]

\* the values a call leaves in ret
Returned(op, c, arg, val) == [op |-> op, cid |-> c, arg |-> arg, val |-> val]

\* history: a tick of the monitor starts over the snapshot res; the fields a
\* tick has written grow one tick older (up to MaxAge)
TickStarted(h, res) ==
    IF "age" \notin DOMAIN h THEN h
    ELSE [h EXCEPT !.before = res,
                   !.age = [f \in DOMAIN h.age |->
                              IF h.age[f] < 0 THEN -1
                              ELSE IF h.age[f] < MaxAge THEN h.age[f] + 1
                              ELSE MaxAge]]

\* history: the running tick of the monitor has written field f
Written(h, f) ==
    IF "age" \notin DOMAIN h THEN h ELSE [h EXCEPT !.age[f] = 0]

\* history: a tick of a background loop ends, by an exception or not; fail
\* tells whether a tick has failed and whether a tick has ended since
TickEnded(h, failed) ==
    IF "beat" \notin DOMAIN h THEN h
    ELSE [h EXCEPT !.beat = 1 - h.beat,
                   !.fail = IF h.fail = "failed" THEN "again"
                            ELSE IF failed /\ h.fail = "none" THEN "failed"
                            ELSE h.fail]

Init ==
    /\ clients = <<>>
    /\ commands_queue = <<>>
    /\ system_resources = [cpu_usage |-> 0, memory_usage |-> 0, active_connections |-> 0]
    /\ mon = "cpu"
    /\ bg = "cleanup"
    /\ hb = [w \in Workers |-> [pc |-> "idle", cid |-> "-"]]
    /\ now = 0
    /\ ticks = 0
    /\ nsent = [c \in AllIds |-> 0]
    /\ ret = Returned("init", "-", None, None)
    /\ appended = [c \in AllIds |-> <<>>]
    /\ delivered = [c \in AllIds |-> <<>>]
    /\ burst = [c \in AllIds |-> 0]
    /\ drain = [c \in AllIds |-> [left |-> <<>>, got |-> <<>>]]
    /\ revived = {}
    /\ lock = "free"
    /\ req = [w \in Workers |-> [pc |-> "idle"]]
    /\ connection_times = <<>>
    /\ allowed = <<>>
    /\ denied = -1
    /\ mtick = None
    /\ btick = None
    /\ rate_lock = "free"
    /\ held = 0

\* the history of a background loop before its first tick
NoTicks == [beat |-> 0, fail |-> "none"]

\* the state after construction, with the snapshot's history recorded from
\* there on: the tick that wrote each field (-1: none has) and the snapshot
\* the running tick started with
InitSnapshot ==
    /\ clients = <<>>
    /\ commands_queue = <<>>
    /\ system_resources = [cpu_usage |-> 0, memory_usage |-> 0, active_connections |-> 0]
    /\ mon = "cpu"
    /\ bg = "cleanup"
    /\ hb = [w \in Workers |-> [pc |-> "idle", cid |-> "-"]]
    /\ now = 0
    /\ ticks = 0
    /\ nsent = [c \in AllIds |-> 0]
    /\ ret = Returned("init", "-", None, None)
    /\ appended = [c \in AllIds |-> <<>>]
    /\ delivered = [c \in AllIds |-> <<>>]
    /\ burst = [c \in AllIds |-> 0]
    /\ drain = [c \in AllIds |-> [left |-> <<>>, got |-> <<>>]]
    /\ revived = {}
    /\ lock = "free"
    /\ req = [w \in Workers |-> [pc |-> "idle"]]
    /\ connection_times = <<>>
    /\ allowed = <<>>
    /\ denied = -1
    /\ mtick = [age |-> [f \in DOMAIN system_resources |-> -1],
                before |-> system_resources]
    /\ btick = None
    /\ rate_lock = "free"
    /\ held = 0

\* the state after construction, with the ends of the ticks of both background
\* loops recorded from there on
InitTicks ==
    /\ clients = <<>>
    /\ commands_queue = <<>>
    /\ system_resources = [cpu_usage |-> 0, memory_usage |-> 0, active_connections |-> 0]
    /\ mon = "cpu"
    /\ bg = "cleanup"
    /\ hb = [w \in Workers |-> [pc |-> "idle", cid |-> "-"]]
    /\ now = 0
    /\ ticks = 0
    /\ nsent = [c \in AllIds |-> 0]
    /\ ret = Returned("init", "-", None, None)
    /\ appended = [c \in AllIds |-> <<>>]
    /\ delivered = [c \in AllIds |-> <<>>]
    /\ burst = [c \in AllIds |-> 0]
    /\ drain = [c \in AllIds |-> [left |-> <<>>, got |-> <<>>]]
    /\ revived = {}
    /\ lock = "free"
    /\ req = [w \in Workers |-> [pc |-> "idle"]]
    /\ connection_times = <<>>
    /\ allowed = <<>>
    /\ denied = -1
    /\ mtick = NoTicks
    /\ btick = NoTicks
    /\ rate_lock = "free"
    /\ held = 0

\* --------------------------------------------------------------- actions
\* the wall clock advances
Tick(d) ==
    /\ ticks < MaxTicks
    /\ now' = now + d
    /\ ticks' = ticks + 1
    /\ UNCHANGED <<clients, commands_queue, system_resources, mon, bg, hb, nsent, ret,
                   appended, delivered, burst, drain, revived>>
    /\ UNCHANGED <<lock, req>>
    /\ UNCHANGED <<connection_times, allowed, denied>>
    /\ UNCHANGED <<mtick, btick>>
    /\ UNCHANGED <<rate_lock, held>>

\* register_client storing the record of an already known identifier before it
\* asks can_accept_client
RegisterClientStoringFirst(c, ip, hostname) ==
    /\ IF ~CanAcceptClient(clients, system_resources)
       THEN /\ ret' = Returned("register_client", c, <<ip, hostname>>, FALSE)
            /\ clients' = IF c \in DOMAIN clients
                          THEN Put(clients, c, ClientInfo(c, ip, hostname, now))
                          ELSE clients
       ELSE /\ clients' = Put(clients, c, ClientInfo(c, ip, hostname, now))
            /\ ret' = Returned("register_client", c, <<ip, hostname>>, TRUE)
    /\ UNCHANGED <<commands_queue, system_resources, mon, bg, hb, now, ticks, nsent,
                   appended, delivered, burst, drain, revived>>
    /\ UNCHANGED <<lock, req>>
    /\ UNCHANGED <<connection_times, allowed, denied>>
    /\ UNCHANGED <<mtick, btick>>
    /\ UNCHANGED <<rate_lock, held>>

\* register_client starting a re-registered client with an empty queue
RegisterClientResettingQueue(c, ip, hostname) ==
    /\ IF ~CanAcceptClient(clients, system_resources)
       THEN /\ ret' = Returned("register_client", c, <<ip, hostname>>, FALSE)
            /\ UNCHANGED <<clients, commands_queue>>
       ELSE /\ clients' = Put(clients, c, ClientInfo(c, ip, hostname, now))
            /\ commands_queue' = Put(commands_queue, c, <<>>)
            /\ ret' = Returned("register_client", c, <<ip, hostname>>, TRUE)
    /\ UNCHANGED <<system_resources, mon, bg, hb, now, ticks, nsent,
                   appended, delivered, burst, drain, revived>>
    /\ UNCHANGED <<lock, req>>
    /\ UNCHANGED <<connection_times, allowed, denied>>
    /\ UNCHANGED <<mtick, btick>>
    /\ UNCHANGED <<rate_lock, held>>

\* ClientManager.register_client
RegisterClient(c, ip, hostname) ==
    /\ IF ~CanAcceptClient(clients, system_resources)
       THEN /\ ret' = Returned("register_client", c, <<ip, hostname>>, FALSE)
            /\ UNCHANGED clients
       ELSE /\ clients' = Put(clients, c, ClientInfo(c, ip, hostname, now))
            /\ ret' = Returned("register_client", c, <<ip, hostname>>, TRUE)
    /\ UNCHANGED <<commands_queue, system_resources, mon, bg, hb, now, ticks, nsent,
                   appended, delivered, burst, drain, revived>>
    /\ UNCHANGED <<lock, req>>
    /\ UNCHANGED <<connection_times, allowed, denied>>
    /\ UNCHANGED <<mtick, btick>>
    /\ UNCHANGED <<rate_lock, held>>

\* update_heartbeat inserting a record for an unknown identifier
TouchedCreating(cl, c, t) ==
    IF c \in DOMAIN cl
    THEN [cl EXCEPT ![c].last_seen = t, ![c].status = "online"]
    ELSE Put(cl, c, ClientInfo(c, "", "Unknown", t))

\* update_heartbeat building a new ClientInfo for a known identifier
TouchedRecreating(cl, c, t) ==
    IF c \in DOMAIN cl
    THEN Put(cl, c, ClientInfo(c, cl[c].ip, cl[c].hostname, t))
    ELSE cl

\* update_heartbeat refreshing last_seen without setting the status
TouchedKeepingStatus(cl, c, t) ==
    IF c \in DOMAIN cl
    THEN [cl EXCEPT ![c].last_seen = t]
    ELSE cl

\* the client map after ClientManager.update_heartbeat(c) at time t
Touched(cl, c, t) ==
    IF c \in DOMAIN cl
    THEN [cl EXCEPT ![c].last_seen = t, ![c].status = "online"]
    ELSE cl

\* the clients that update_heartbeat(c) takes from offline to online
Revived(cl, c) ==
    IF c \in DOMAIN cl /\ cl[c].status = "offline" THEN {c} ELSE {}

\* ClientManager.update_heartbeat
UpdateHeartbeat(c) ==
    /\ clients' = Touched(clients, c, now)
    /\ ret' = Returned("update_heartbeat", c, None, c \in DOMAIN clients)
    /\ revived' = revived \cup Revived(clients, c)
    /\ UNCHANGED <<commands_queue, system_resources, mon, bg, hb, now, ticks, nsent,
                   appended, delivered, burst, drain>>
    /\ UNCHANGED <<lock, req>>
    /\ UNCHANGED <<connection_times, allowed, denied>>
    /\ UNCHANGED <<mtick, btick>>
    /\ UNCHANGED <<rate_lock, held>>

\* add_command with '<=' for '<' in the length test
EnqueuedOffByOne(cl, q, c, cmd) ==
    IF c \in DOMAIN cl /\ Len(QueueOf(q, c)) <= QueueLimit
    THEN Put(q, c, Append(QueueOf(q, c), cmd))
    ELSE q

\* add_command evicting the oldest entry of a full queue to make room
EnqueuedDropOldest(cl, q, c, cmd) ==
    IF c \in DOMAIN cl
    THEN IF Len(QueueOf(q, c)) < QueueLimit
         THEN Put(q, c, Append(QueueOf(q, c), cmd))
         ELSE Put(q, c, Append(Tail(QueueOf(q, c)), cmd))
    ELSE q

\* add_command without the test 'client_id in self.clients'
EnqueuedUnchecked(cl, q, c, cmd) ==
    IF Len(QueueOf(q, c)) < QueueLimit
    THEN Put(q, c, Append(QueueOf(q, c), cmd))
    ELSE q

\* add_command testing the length of every queue instead of the client's own
EnqueuedAnyFull(cl, q, c, cmd) ==
    IF c \in DOMAIN cl /\ \A x \in DOMAIN q \cup {c} : Len(QueueOf(q, x)) < QueueLimit
    THEN Put(q, c, Append(QueueOf(q, c), cmd))
    ELSE q

\* the queue map after ClientManager.add_command(c, cmd)
Enqueued(cl, q, c, cmd) ==
    IF c \in DOMAIN cl /\ Len(QueueOf(q, c)) < QueueLimit
    THEN Put(q, c, Append(QueueOf(q, c), cmd))
    ELSE q

\* ClientManager.add_command, called with the dict api_send_command builds
AddCommand(c, name, limit) ==
    /\ nsent[c] < limit
    /\ LET cmd == Command(name, nsent[c] + 1, now)
           q2 == Enqueued(clients, commands_queue, c, cmd)
       IN /\ commands_queue' = q2
          /\ appended' = IF q2 # commands_queue
                         THEN [appended EXCEPT ![c] = Append(@, cmd)]
                         ELSE appended
          /\ ret' = Returned("add_command", c, cmd, None)
    /\ burst' = IF c \in DOMAIN clients THEN [burst EXCEPT ![c] = @ + 1] ELSE burst
    /\ drain' = [drain EXCEPT ![c] = [left |-> <<>>, got |-> <<>>]]
    /\ nsent' = [nsent EXCEPT ![c] = @ + 1]
    /\ UNCHANGED <<clients, system_resources, mon, bg, hb, now, ticks, delivered, revived>>
    /\ UNCHANGED <<lock, req>>
    /\ UNCHANGED <<connection_times, allowed, denied>>
    /\ UNCHANGED <<mtick, btick>>
    /\ UNCHANGED <<rate_lock, held>>

\* get_command with list.pop() for list.pop(0)
PoppedLast(q, c) ==
    IF c \in DOMAIN q /\ q[c] # <<>>
    THEN [result |-> q[c][Len(q[c])],
          queue |-> [q EXCEPT ![c] = SubSeq(@, 1, Len(@) - 1)]]
    ELSE [result |-> None, queue |-> q]

\* get_command reading the first entry without removing it
PoppedKeeping(q, c) ==
    IF c \in DOMAIN q /\ q[c] # <<>>
    THEN [result |-> Head(q[c]), queue |-> q]
    ELSE [result |-> None, queue |-> q]

\* get_command indexing the defaultdict without the membership test: an
\* identifier without a queue gets an empty one
PoppedCreating(q, c) ==
    IF c \in DOMAIN q /\ q[c] # <<>>
    THEN [result |-> Head(q[c]), queue |-> [q EXCEPT ![c] = Tail(@)]]
    ELSE [result |-> None, queue |-> Put(q, c, <<>>)]

\* what ClientManager.get_command(c) returns, and the queue map it leaves
Popped(q, c) ==
    IF c \in DOMAIN q /\ q[c] # <<>>
    THEN [result |-> Head(q[c]), queue |-> [q EXCEPT ![c] = Tail(@)]]
    ELSE [result |-> None, queue |-> q]

\* the histories after a get_command(c) that returned r
Delivery(c, r) ==
    /\ delivered' = IF r # None THEN [delivered EXCEPT ![c] = Append(@, r)]
                    ELSE delivered
    /\ burst' = [burst EXCEPT ![c] = 0]
    /\ drain' = [drain EXCEPT ![c] =
                    IF burst[c] > QueueLimit
                    THEN [left |-> QueueOf(commands_queue, c),
                          got |-> IF r # None THEN <<r>> ELSE <<>>]
                    ELSE IF @.left # <<>> /\ r # None
                    THEN [@ EXCEPT !.got = Append(@, r)]
                    ELSE @]

\* ClientManager.get_command
GetCommand(c) ==
    /\ commands_queue' = Popped(commands_queue, c).queue
    /\ ret' = Returned("get_command", c, None, Popped(commands_queue, c).result)
    /\ Delivery(c, Popped(commands_queue, c).result)
    /\ UNCHANGED <<clients, system_resources, mon, bg, hb, now, ticks, nsent, appended,
                   revived>>
    /\ UNCHANGED <<lock, req>>
    /\ UNCHANGED <<connection_times, allowed, denied>>
    /\ UNCHANGED <<mtick, btick>>
    /\ UNCHANGED <<rate_lock, held>>

\* cleanup_inactive_clients with the age taken as last_seen - current_time
SweptReversed(cl, t, timeout) ==
    [c \in DOMAIN cl |->
        IF cl[c].last_seen - t > timeout THEN [cl[c] EXCEPT !.status = "offline"] ELSE cl[c]]

\* cleanup_inactive_clients with '>=' for '>' in the age test
SweptInclusive(cl, t, timeout) ==
    [c \in DOMAIN cl |->
        IF t - cl[c].last_seen >= timeout THEN [cl[c] EXCEPT !.status = "offline"] ELSE cl[c]]

\* cleanup_inactive_clients deleting the records it finds inactive
SweptDeleting(cl, t, timeout) ==
    [c \in {x \in DOMAIN cl : ~(t - cl[x].last_seen > timeout)} |-> cl[c]]

\* the client map after ClientManager.cleanup_inactive_clients(timeout) at time t
Swept(cl, t, timeout) ==
    [c \in DOMAIN cl |->
        IF t - cl[c].last_seen > timeout THEN [cl[c] EXCEPT !.status = "offline"] ELSE cl[c]]

\* sum(len(queue) for queue in self.commands_queue.values())
RECURSIVE TotalCommands(_, _)
TotalCommands(q, S) ==
    IF S = {} THEN 0
    ELSE LET x == CHOOSE y \in S : TRUE
         IN Len(q[x]) + TotalCommands(q, S \ {x})

\* get_system_status with len(self.commands_queue), the number of queues, for
\* the sum of their lengths
SystemStatusCountingQueues(cl, q, res) ==
    [active_clients |-> ActiveClients(cl),
     total_clients |-> Cardinality(DOMAIN cl),
     total_commands_queued |-> Cardinality(DOMAIN q),
     system_resources |-> res,
     max_clients |-> max_clients]

\* what ClientManager.get_system_status returns
SystemStatus(cl, q, res) ==
    [active_clients |-> ActiveClients(cl),
     total_clients |-> Cardinality(DOMAIN cl),
     total_commands_queued |-> TotalCommands(q, DOMAIN q),
     system_resources |-> res,
     max_clients |-> max_clients]

\* the sweep also emptying the queues of the clients it finds inactive
BackgroundCleanupPurging ==
    /\ bg = "cleanup"
    /\ clients' = Swept(clients, now, timeout_seconds)
    /\ commands_queue' =
          [c \in DOMAIN commands_queue |->
              IF c \in DOMAIN clients /\ now - clients[c].last_seen > timeout_seconds
              THEN <<>>
              ELSE commands_queue[c]]
    /\ ret' = Returned("cleanup_inactive_clients", "-", timeout_seconds, None)
    /\ bg' = "status"
    /\ UNCHANGED <<system_resources, mon, hb, now, ticks, nsent,
                   appended, delivered, burst, drain, revived>>
    /\ UNCHANGED <<lock, req>>
    /\ UNCHANGED <<connection_times, allowed, denied>>
    /\ UNCHANGED <<mtick, btick>>
    /\ UNCHANGED <<rate_lock, held>>

\* background_tasks, first lock section: cleanup_inactive_clients() with the
\* default timeout
BackgroundCleanup ==
    /\ bg = "cleanup"
    /\ clients' = Swept(clients, now, timeout_seconds)
    /\ ret' = Returned("cleanup_inactive_clients", "-", timeout_seconds, None)
    /\ bg' = "status"
    /\ UNCHANGED <<commands_queue, system_resources, mon, hb, now, ticks, nsent,
                   appended, delivered, burst, drain, revived>>
    /\ UNCHANGED <<lock, req>>
    /\ UNCHANGED <<connection_times, allowed, denied>>
    /\ UNCHANGED <<mtick, btick>>
    /\ UNCHANGED <<rate_lock, held>>

\* background_tasks, second lock section: get_system_status() for the log line,
\* then the sleep until the next round
BackgroundStatus ==
    /\ bg = "status"
    /\ ret' = Returned("get_system_status", "-", None,
                       SystemStatus(clients, commands_queue, system_resources))
    /\ bg' = "cleanup"
    /\ UNCHANGED <<clients, commands_queue, system_resources, mon, hb, now, ticks,
                   nsent, appended, delivered, burst, drain, revived>>
    /\ UNCHANGED <<lock, req>>
    /\ UNCHANGED <<connection_times, allowed, denied>>
    /\ btick' = TickEnded(btick, FALSE)
    /\ UNCHANGED mtick
    /\ UNCHANGED <<rate_lock, held>>

\* background_tasks: cleanup_inactive_clients() or get_system_status() raises
\* before it has changed anything; the except clause logs it and the loop
\* starts over after the sleep
BackgroundFail ==
    /\ bg \in {"cleanup", "status"}
    /\ bg' = "cleanup"
    /\ btick' = TickEnded(btick, TRUE)
    /\ UNCHANGED <<clients, commands_queue, system_resources, mon, hb, now, ticks,
                   nsent, ret, appended, delivered, burst, drain, revived>>
    /\ UNCHANGED <<lock, req>>
    /\ UNCHANGED <<connection_times, allowed, denied, mtick>>
    /\ UNCHANGED <<rate_lock, held>>

\* api_system_status: get_system_status() under the lock, answered as JSON
ApiSystemStatus ==
    /\ ret' = Returned("api_system_status", "-", None,
                       SystemStatus(clients, commands_queue, system_resources))
    /\ UNCHANGED <<clients, commands_queue, system_resources, mon, bg, hb, now, ticks,
                   nsent, appended, delivered, burst, drain, revived>>
    /\ UNCHANGED <<lock, req>>
    /\ UNCHANGED <<connection_times, allowed, denied, mtick, btick>>
    /\ UNCHANGED <<rate_lock, held>>

\* api_heartbeat, first lock section: update_heartbeat, and the 404 answer
ApiHeartbeatTouch(w, c) ==
    /\ hb[w].pc = "idle"
    /\ clients' = Touched(clients, c, now)
    /\ revived' = revived \cup Revived(clients, c)
    /\ IF c \in DOMAIN clients
       THEN /\ hb' = [hb EXCEPT ![w] = [pc |-> "get_command", cid |-> c]]
            /\ UNCHANGED ret
       ELSE /\ ret' = Returned("api_heartbeat", c, None, [code |-> 404])
            /\ UNCHANGED hb
    /\ UNCHANGED <<commands_queue, system_resources, mon, bg, now, ticks, nsent,
                   appended, delivered, burst, drain>>
    /\ UNCHANGED <<lock, req>>
    /\ UNCHANGED <<connection_times, allowed, denied>>
    /\ UNCHANGED <<mtick, btick>>
    /\ UNCHANGED <<rate_lock, held>>

\* api_heartbeat, second lock section: get_command, and the 200 answer
ApiHeartbeatGet(w) ==
    /\ hb[w].pc = "get_command"
    /\ LET c == hb[w].cid
           r == Popped(commands_queue, c).result
       IN /\ commands_queue' = Popped(commands_queue, c).queue
          /\ ret' = Returned("api_heartbeat", c, None, [code |-> 200, command |-> r])
          /\ Delivery(c, r)
    /\ hb' = [hb EXCEPT ![w] = [pc |-> "idle", cid |-> "-"]]
    /\ UNCHANGED <<clients, system_resources, mon, bg, now, ticks, nsent, appended,
                   revived>>
    /\ UNCHANGED <<lock, req>>
    /\ UNCHANGED <<connection_times, allowed, denied>>
    /\ UNCHANGED <<mtick, btick>>
    /\ UNCHANGED <<rate_lock, held>>

\* monitor(): system_resources['cpu_usage'] = psutil.cpu_percent(interval=1)
MonitorCpu ==
    /\ mon = "cpu"
    /\ \E v \in CpuSamples : system_resources' = [system_resources EXCEPT !.cpu_usage = v]
    /\ mon' = "memory"
    /\ UNCHANGED <<clients, commands_queue, bg, hb, now, ticks, nsent, ret,
                   appended, delivered, burst, drain, revived>>
    /\ UNCHANGED <<lock, req>>
    /\ UNCHANGED <<connection_times, allowed, denied>>
    /\ mtick' = Written(TickStarted(mtick, system_resources), "cpu_usage")
    /\ UNCHANGED btick
    /\ UNCHANGED <<rate_lock, held>>

\* monitor(): system_resources['memory_usage'] = psutil.virtual_memory().percent
MonitorMemory ==
    /\ mon = "memory"
    /\ \E v \in MemorySamples :
          system_resources' = [system_resources EXCEPT !.memory_usage = v]
    /\ mon' = "connections"
    /\ UNCHANGED <<clients, commands_queue, bg, hb, now, ticks, nsent, ret,
                   appended, delivered, burst, drain, revived>>
    /\ UNCHANGED <<lock, req>>
    /\ UNCHANGED <<connection_times, allowed, denied>>
    /\ mtick' = Written(mtick, "memory_usage")
    /\ UNCHANGED btick
    /\ UNCHANGED <<rate_lock, held>>

\* monitor(): system_resources['active_connections'] = number of online clients,
\* counted by iterating self.clients without the lock; then sleep and start over.
\* Where the monitor runs (SpecAdmit) the only writer is register_client: a new
\* key during the iteration makes it raise (MonitorFail), an overwrite keeps the
\* status online, so the iteration yields the count of one instant.
MonitorConnections ==
    /\ mon = "connections"
    /\ system_resources' =
          [system_resources EXCEPT !.active_connections = ActiveClients(clients)]
    /\ mon' = "cpu"
    /\ UNCHANGED <<clients, commands_queue, bg, hb, now, ticks, nsent, ret,
                   appended, delivered, burst, drain, revived>>
    /\ UNCHANGED <<lock, req>>
    /\ UNCHANGED <<connection_times, allowed, denied>>
    /\ mtick' = TickEnded(Written(mtick, "active_connections"), FALSE)
    /\ UNCHANGED btick
    /\ UNCHANGED <<rate_lock, held>>

\* monitor() without the try: the exception ends the thread
MonitorFailTerminating ==
    /\ mon \in {"cpu", "memory", "connections"}
    /\ mon' = "dead"
    /\ mtick' = IF mon = "cpu"
                THEN TickEnded(TickStarted(mtick, system_resources), TRUE)
                ELSE TickEnded(mtick, TRUE)
    /\ UNCHANGED <<clients, commands_queue, system_resources, bg, hb, now, ticks, nsent,
                   ret, appended, delivered, burst, drain, revived, lock, req>>
    /\ UNCHANGED <<connection_times, allowed, denied, btick>>
    /\ UNCHANGED <<rate_lock, held>>

\* monitor(): one of the three statements raises; the except clause logs it and
\* the loop starts over after the sleep
MonitorFail ==
    /\ mon \in {"cpu", "memory", "connections"}
    /\ mon' = "cpu"
    /\ mtick' = IF mon = "cpu"
                THEN TickEnded(TickStarted(mtick, system_resources), TRUE)
                ELSE TickEnded(mtick, TRUE)
    /\ UNCHANGED <<clients, commands_queue, system_resources, bg, hb, now, ticks, nsent,
                   ret, appended, delivered, burst, drain, revived, lock, req>>
    /\ UNCHANGED <<connection_times, allowed, denied, btick>>
    /\ UNCHANGED <<rate_lock, held>>

\* register_client writing the fields of an existing record one by one instead
\* of storing a new ClientInfo (hostname and connection_time are left behind)
RegisteredInPlace(cl, c, ip, hostname, t) ==
    IF c \in DOMAIN cl
    THEN [cl EXCEPT ![c].ip = ip, ![c].last_seen = t, ![c].status = "online"]
    ELSE Put(cl, c, ClientInfo(c, ip, hostname, t))

\* the client map after the store of register_client:
\* self.clients[client_id] = ClientInfo(...)
Registered(cl, c, ip, hostname, t) == Put(cl, c, ClientInfo(c, ip, hostname, t))

\* a worker receives a register request and reaches 'with self._lock' of
\* register_client
RegisterCall(w, c, ip, hostname) ==
    /\ req[w].pc = "idle"
    /\ req' = [req EXCEPT ![w] = [pc |-> "acquire", cid |-> c, ip |-> ip,
                                  hostname |-> hostname]]
    /\ UNCHANGED <<clients, commands_queue, system_resources, mon, bg, hb, now, ticks,
                   nsent, ret, appended, delivered, burst, drain, revived, lock>>
    /\ UNCHANGED <<connection_times, allowed, denied>>
    /\ UNCHANGED <<mtick, btick>>
    /\ UNCHANGED <<rate_lock, held>>

\* register_client: the lock is acquired
RegisterEnter(w) ==
    /\ req[w].pc = "acquire"
    /\ lock = "free"
    /\ lock' = w
    /\ req' = [req EXCEPT ![w].pc = "register_client"]
    /\ UNCHANGED <<clients, commands_queue, system_resources, mon, bg, hb, now, ticks,
                   nsent, ret, appended, delivered, burst, drain, revived>>
    /\ UNCHANGED <<connection_times, allowed, denied>>
    /\ UNCHANGED <<mtick, btick>>
    /\ held' = 1
    /\ UNCHANGED rate_lock

\* register_client: the body under the lock (can_accept_client re-enters the
\* RLock), the return and the release
RegisterLeave(w) ==
    /\ req[w].pc = "register_client"
    /\ lock = w
    /\ LET c == req[w].cid
           ip == req[w].ip
           hostname == req[w].hostname
       IN IF ~CanAcceptClient(clients, system_resources)
          THEN /\ ret' = Returned("register_client", c, <<ip, hostname>>, FALSE)
               /\ UNCHANGED clients
          ELSE /\ clients' = Registered(clients, c, ip, hostname, now)
               /\ ret' = Returned("register_client", c, <<ip, hostname>>, TRUE)
    /\ lock' = "free"
    /\ req' = [req EXCEPT ![w] = [pc |-> "idle"]]
    /\ UNCHANGED <<commands_queue, system_resources, mon, bg, hb, now, ticks, nsent,
                   appended, delivered, burst, drain, revived>>
    /\ UNCHANGED <<connection_times, allowed, denied>>
    /\ UNCHANGED <<mtick, btick>>
    /\ held' = 0
    /\ UNCHANGED rate_lock

\* api_clients: 'for client_id, client in client_manager.clients.items()' creates
\* the dict iterator, which remembers the dict's size; no lock is taken
ApiClientsBegin(w) ==
    /\ req[w].pc = "idle"
    /\ req' = [req EXCEPT ![w] = [pc |-> "api_clients",
                                  used |-> Cardinality(DOMAIN clients),
                                  todo |-> DOMAIN clients,
                                  clients_data |-> <<>>]]
    /\ UNCHANGED <<clients, commands_queue, system_resources, mon, bg, hb, now, ticks,
                   nsent, ret, appended, delivered, burst, drain, revived, lock>>
    /\ UNCHANGED <<connection_times, allowed, denied>>
    /\ UNCHANGED <<mtick, btick>>
    /\ UNCHANGED <<rate_lock, held>>

\* the entry api_clients builds for one client
ClientData(r) ==
    [hostname |-> r.hostname, ip |-> r.ip, last_seen |-> r.last_seen,
     status |-> r.status, connection_time |-> r.connection_time]

\* api_clients: one round of the loop, without the lock.  The iterator raises
\* RuntimeError when the dict's size changed since it was created (the handler
\* does not catch it: HTTP 500); at the end the handler returns clients_data.
\* The model keeps no insertion order, so the keys come in any order.
ApiClientsNext(w) ==
    /\ req[w].pc = "api_clients"
    /\ IF Cardinality(DOMAIN clients) # req[w].used
       THEN /\ ret' = Returned("api_clients", "-", None, [code |-> 500])
            /\ req' = [req EXCEPT ![w] = [pc |-> "idle"]]
       ELSE IF req[w].todo = {}
       THEN /\ ret' = Returned("api_clients", "-", None,
                               [code |-> 200, clients_data |-> req[w].clients_data])
            /\ req' = [req EXCEPT ![w] = [pc |-> "idle"]]
       ELSE /\ \E c \in req[w].todo :
                  req' = [req EXCEPT
                             ![w].todo = @ \ {c},
                             ![w].clients_data = Put(@, c, ClientData(clients[c]))]
            /\ UNCHANGED ret
    /\ UNCHANGED <<clients, commands_queue, system_resources, mon, bg, hb, now, ticks,
                   nsent, appended, delivered, burst, drain, revived, lock>>
    /\ UNCHANGED <<connection_times, allowed, denied>>
    /\ UNCHANGED <<mtick, btick>>
    /\ UNCHANGED <<rate_lock, held>>

\* connection_times after the pruning of allow_connection at time t
Pruned(times, t) == SelectSeq(times, LAMBDA x : t - x < Window)

\* allow_connection with '<=' for '<' in the test against max_connections
AllowedOffByOne(times, t) ==
    IF Len(Pruned(times, t)) <= max_connections
    THEN [result |-> TRUE, times |-> Append(Pruned(times, t), t)]
    ELSE [result |-> FALSE, times |-> Pruned(times, t)]

\* what ConnectionRateLimiter.allow_connection returns at time t, and the list
\* it leaves
Allowed(times, t) ==
    IF Len(Pruned(times, t)) < max_connections
    THEN [result |-> TRUE, times |-> Append(Pruned(times, t), t)]
    ELSE [result |-> FALSE, times |-> Pruned(times, t)]

\* api_register going on to register_client although allow_connection refused
ApiRegisterAllowIgnoring(w, c, ip, hostname) ==
    /\ req[w].pc = "idle"
    /\ LET a == Allowed(connection_times, now)
       IN /\ connection_times' = a.times
          /\ allowed' = IF a.result THEN Append(allowed, now) ELSE allowed
          /\ denied' = IF a.result THEN denied ELSE now
          /\ IF c = ""
             THEN /\ ret' = Returned("api_register", c, <<ip, hostname>>, [code |-> 400])
                  /\ UNCHANGED req
             ELSE /\ req' = [req EXCEPT ![w] = [pc |-> "register", cid |-> c, ip |-> ip,
                                                hostname |-> hostname]]
                  /\ UNCHANGED ret
    /\ UNCHANGED <<clients, commands_queue, system_resources, mon, bg, hb, now, ticks,
                   nsent, appended, delivered, burst, drain, revived, lock>>
    /\ UNCHANGED <<mtick, btick>>
    /\ UNCHANGED <<rate_lock, held>>

\* api_register up to the call of register_client: rate_limiter.allow_connection()
\* (one section of the limiter's own lock) and its 429 answer, then the test of
\* client_id and its 400 answer
ApiRegisterAllow(w, c, ip, hostname) ==
    /\ req[w].pc = "idle"
    /\ LET a == Allowed(connection_times, now)
       IN /\ connection_times' = a.times
          /\ allowed' = IF a.result THEN Append(allowed, now) ELSE allowed
          /\ denied' = IF a.result THEN denied ELSE now
          /\ IF ~a.result
             THEN /\ ret' = Returned("api_register", c, <<ip, hostname>>, [code |-> 429])
                  /\ UNCHANGED req
             ELSE IF c = ""
             THEN /\ ret' = Returned("api_register", c, <<ip, hostname>>, [code |-> 400])
                  /\ UNCHANGED req
             ELSE /\ req' = [req EXCEPT ![w] = [pc |-> "register", cid |-> c, ip |-> ip,
                                                hostname |-> hostname]]
                  /\ UNCHANGED ret
    /\ UNCHANGED <<clients, commands_queue, system_resources, mon, bg, hb, now, ticks,
                   nsent, appended, delivered, burst, drain, revived, lock>>
    /\ UNCHANGED <<mtick, btick>>
    /\ UNCHANGED <<rate_lock, held>>

\* api_register: register_client (one section of the manager's lock) and the
\* 200 or 503 answer
ApiRegisterAdmit(w) ==
    /\ req[w].pc = "register"
    /\ LET c == req[w].cid
           ip == req[w].ip
           hostname == req[w].hostname
       IN IF ~CanAcceptClient(clients, system_resources)
          THEN /\ ret' = Returned("api_register", c, <<ip, hostname>>, [code |-> 503])
               /\ UNCHANGED clients
          ELSE /\ clients' = Registered(clients, c, ip, hostname, now)
               /\ ret' = Returned("api_register", c, <<ip, hostname>>, [code |-> 200])
    /\ req' = [req EXCEPT ![w] = [pc |-> "idle"]]
    /\ UNCHANGED <<commands_queue, system_resources, mon, bg, hb, now, ticks, nsent,
                   appended, delivered, burst, drain, revived, lock>>
    /\ UNCHANGED <<connection_times, allowed, denied>>
    /\ UNCHANGED <<mtick, btick>>
    /\ UNCHANGED <<rate_lock, held>>

\* a worker receives a register request and reaches 'with self._lock' of
\* allow_connection
ApiRegisterBegin(w, c, ip, hostname) ==
    /\ req[w].pc = "idle"
    /\ req' = [req EXCEPT ![w] = [pc |-> "allow_acquire", cid |-> c, ip |-> ip,
                                  hostname |-> hostname]]
    /\ UNCHANGED <<clients, ret, lock, held, rate_lock>>
    /\ UNCHANGED <<connection_times, allowed, denied>>
    /\ UNCHANGED <<commands_queue, system_resources, mon, bg, hb, now, ticks, nsent,
                   appended, delivered, burst, drain, revived>>
    /\ UNCHANGED <<mtick, btick>>

\* allow_connection: the limiter's lock (a threading.Lock) is acquired
AllowEnter(w) ==
    /\ req[w].pc = "allow_acquire"
    /\ rate_lock = "free"
    /\ rate_lock' = w
    /\ req' = [req EXCEPT ![w].pc = "allow_connection"]
    /\ UNCHANGED <<clients, ret, lock, held>>
    /\ UNCHANGED <<connection_times, allowed, denied>>
    /\ UNCHANGED <<commands_queue, system_resources, mon, bg, hb, now, ticks, nsent,
                   appended, delivered, burst, drain, revived>>
    /\ UNCHANGED <<mtick, btick>>

\* allow_connection: the body under the limiter's lock and the release; then
\* api_register answers 429 or 400, or reaches 'with self._lock' of
\* register_client
AllowLeave(w) ==
    /\ req[w].pc = "allow_connection"
    /\ rate_lock = w
    /\ rate_lock' = "free"
    /\ LET a == Allowed(connection_times, now)
           c == req[w].cid
           ip == req[w].ip
           hostname == req[w].hostname
       IN /\ connection_times' = a.times
          /\ allowed' = IF a.result THEN Append(allowed, now) ELSE allowed
          /\ denied' = IF a.result THEN denied ELSE now
          /\ IF ~a.result
             THEN /\ ret' = Returned("api_register", c, <<ip, hostname>>, [code |-> 429])
                  /\ req' = [req EXCEPT ![w] = [pc |-> "idle"]]
             ELSE IF c = ""
             THEN /\ ret' = Returned("api_register", c, <<ip, hostname>>, [code |-> 400])
                  /\ req' = [req EXCEPT ![w] = [pc |-> "idle"]]
             ELSE /\ req' = [req EXCEPT ![w].pc = "acquire"]
                  /\ UNCHANGED ret
    /\ UNCHANGED <<clients, lock, held>>
    /\ UNCHANGED <<commands_queue, system_resources, mon, bg, hb, now, ticks, nsent,
                   appended, delivered, burst, drain, revived>>
    /\ UNCHANGED <<mtick, btick>>

\* can_accept_client behind a threading.Lock: the thread that holds the lock
\* waits for it
CanAcceptEnterNonReentrant(w) ==
    /\ req[w].pc = "register_client"
    /\ lock = "free"
    /\ lock' = w
    /\ held' = held + 1
    /\ req' = [req EXCEPT ![w].pc = "can_accept_client"]
    /\ UNCHANGED <<clients, ret, rate_lock>>
    /\ UNCHANGED <<connection_times, allowed, denied>>
    /\ UNCHANGED <<commands_queue, system_resources, mon, bg, hb, now, ticks, nsent,
                   appended, delivered, burst, drain, revived>>
    /\ UNCHANGED <<mtick, btick>>

\* register_client calls can_accept_client, whose 'with self._lock' acquires
\* the RLock: free or held by the calling thread
CanAcceptEnter(w) ==
    /\ req[w].pc = "register_client"
    /\ lock \in {"free", w}
    /\ lock' = w
    /\ held' = held + 1
    /\ req' = [req EXCEPT ![w].pc = "can_accept_client"]
    /\ UNCHANGED <<clients, ret, rate_lock>>
    /\ UNCHANGED <<connection_times, allowed, denied>>
    /\ UNCHANGED <<commands_queue, system_resources, mon, bg, hb, now, ticks, nsent,
                   appended, delivered, burst, drain, revived>>
    /\ UNCHANGED <<mtick, btick>>

\* can_accept_client: the body and the release of its level of the RLock
CanAcceptLeave(w) ==
    /\ req[w].pc = "can_accept_client"
    /\ lock = w
    /\ held' = held - 1
    /\ lock' = IF held = 1 THEN "free" ELSE w
    /\ req' = [req EXCEPT ![w] = [cid |-> @.cid, ip |-> @.ip, hostname |-> @.hostname,
                                  pc |-> "store",
                                  accept |-> CanAcceptClient(clients, system_resources)]]
    /\ UNCHANGED <<clients, ret, rate_lock>>
    /\ UNCHANGED <<connection_times, allowed, denied>>
    /\ UNCHANGED <<commands_queue, system_resources, mon, bg, hb, now, ticks, nsent,
                   appended, delivered, burst, drain, revived>>
    /\ UNCHANGED <<mtick, btick>>

\* register_client after can_accept_client: the refusal or the store, the
\* release of the RLock, and the 503 or 200 answer of api_register
RegisterStore(w) ==
    /\ req[w].pc = "store"
    /\ lock = w
    /\ LET c == req[w].cid
           ip == req[w].ip
           hostname == req[w].hostname
       IN IF ~req[w].accept
          THEN /\ ret' = Returned("api_register", c, <<ip, hostname>>, [code |-> 503])
               /\ UNCHANGED clients
          ELSE /\ clients' = Registered(clients, c, ip, hostname, now)
               /\ ret' = Returned("api_register", c, <<ip, hostname>>, [code |-> 200])
    /\ held' = held - 1
    /\ lock' = IF held = 1 THEN "free" ELSE w
    /\ req' = [req EXCEPT ![w] = [pc |-> "idle"]]
    /\ UNCHANGED rate_lock
    /\ UNCHANGED <<connection_times, allowed, denied>>
    /\ UNCHANGED <<commands_queue, system_resources, mon, bg, hb, now, ticks, nsent,
                   appended, delivered, burst, drain, revived>>
    /\ UNCHANGED <<mtick, btick>>

\* api_send_command calling add_command without looking the client up
ApiSendCommandCheckSkipping(w, c, name, limit) ==
    /\ req[w].pc = "idle"
    /\ nsent[c] < limit
    /\ UNCHANGED <<clients, commands_queue, system_resources, mon, bg, hb, now, ticks,
                   appended, delivered, burst, drain, revived, lock>>
    /\ UNCHANGED <<connection_times, allowed, denied>>
    /\ IF name = ""
       THEN /\ UNCHANGED <<req, nsent>>
            /\ ret' = Returned("api_send_command", c, name, [code |-> 400])
       ELSE /\ req' = [req EXCEPT ![w] = [pc |-> "add_command", cid |-> c,
                                          command |-> name, data |-> nsent[c] + 1]]
            /\ nsent' = [nsent EXCEPT ![c] = @ + 1]
            /\ UNCHANGED ret
    /\ UNCHANGED <<mtick, btick>>
    /\ UNCHANGED <<rate_lock, held>>

\* api_send_command up to the call of add_command: the test of the command
\* field and its 400 answer, then 'client_id not in client_manager.clients',
\* read without the lock, and its 404 answer
ApiSendCommandCheck(w, c, name, limit) ==
    /\ req[w].pc = "idle"
    /\ nsent[c] < limit
    /\ UNCHANGED <<clients, commands_queue, system_resources, mon, bg, hb, now, ticks,
                   appended, delivered, burst, drain, revived, lock>>
    /\ UNCHANGED <<connection_times, allowed, denied>>
    /\ IF name = ""
       THEN /\ UNCHANGED <<req, nsent>>
            /\ ret' = Returned("api_send_command", c, name, [code |-> 400])
       ELSE IF c \notin DOMAIN clients
       THEN /\ UNCHANGED <<req, nsent>>
            /\ ret' = Returned("api_send_command", c, name, [code |-> 404])
       ELSE /\ req' = [req EXCEPT ![w] = [pc |-> "add_command", cid |-> c,
                                          command |-> name, data |-> nsent[c] + 1]]
            /\ nsent' = [nsent EXCEPT ![c] = @ + 1]
            /\ UNCHANGED ret
    /\ UNCHANGED <<mtick, btick>>
    /\ UNCHANGED <<rate_lock, held>>

\* api_send_command: the command dict is built (with the time of that moment),
\* add_command runs its lock section, and the answer is 200 whatever it did
ApiSendCommandAdd(w) ==
    /\ req[w].pc = "add_command"
    /\ LET c == req[w].cid
           cmd == Command(req[w].command, req[w].data, now)
           q2 == Enqueued(clients, commands_queue, c, cmd)
       IN /\ commands_queue' = q2
          /\ appended' = IF q2 # commands_queue
                         THEN [appended EXCEPT ![c] = Append(@, cmd)]
                         ELSE appended
          /\ burst' = IF c \in DOMAIN clients THEN [burst EXCEPT ![c] = @ + 1] ELSE burst
          /\ drain' = [drain EXCEPT ![c] = [left |-> <<>>, got |-> <<>>]]
          /\ ret' = Returned("api_send_command", c, cmd, [code |-> 200])
    /\ req' = [req EXCEPT ![w] = [pc |-> "idle"]]
    /\ UNCHANGED <<clients, system_resources, mon, bg, hb, now, ticks, nsent, delivered,
                   revived, lock>>
    /\ UNCHANGED <<connection_times, allowed, denied>>
    /\ UNCHANGED <<mtick, btick>>
    /\ UNCHANGED <<rate_lock, held>>

\* ------------------------------------------------------- specifications
\* the client lifecycle: admission, heartbeats and the sweep as time passes
Next ==
    \/ \E d \in Deltas : Tick(d)
    \/ \E c \in ClientIds, ip \in Ips, h \in Hostnames : RegisterClient(c, ip, h)
    \/ \E c \in ClientIds : UpdateHeartbeat(c)
    \/ BackgroundCleanup
    \/ BackgroundStatus

Spec == Init /\ [][Next]_vars

\* the lifecycle with the background thread scheduled again and again:
\* background_tasks is a 'while True' loop whose two calls always return and
\* whose failures are caught, so each of its steps is eventually taken
NextLive ==
    \/ \E d \in Deltas : Tick(d)
    \/ \E c \in LiveIds, ip \in Ips, h \in Hostnames : RegisterClient(c, ip, h)
    \/ \E c \in LiveIds : UpdateHeartbeat(c)
    \/ BackgroundCleanup
    \/ BackgroundStatus

SpecLive ==
    Init /\ [][NextLive]_vars /\ WF_vars(BackgroundCleanup) /\ WF_vars(BackgroundStatus)

\* the monitor thread with its failures, and the readers of the snapshot: one
\* registering client, api_system_status and background_tasks
NextMonitor ==
    \/ \E c \in QueueIds, ip \in Ips, h \in Hostnames : RegisterClient(c, ip, h)
    \/ ApiSystemStatus
    \/ MonitorCpu
    \/ MonitorMemory
    \/ MonitorConnections
    \/ MonitorFail
    \/ BackgroundCleanup
    \/ BackgroundStatus

SpecMonitor == InitSnapshot /\ [][NextMonitor]_vars

\* a step of the monitor thread, and a step of the background_tasks thread
MonitorStep == MonitorCpu \/ MonitorMemory \/ MonitorConnections \/ MonitorFail
BackgroundStep == BackgroundCleanup \/ BackgroundStatus \/ BackgroundFail

\* the two background loops with their failures, and one registering client
NextTasks ==
    \/ \E c \in QueueIds, ip \in Ips, h \in Hostnames : RegisterClient(c, ip, h)
    \/ MonitorCpu
    \/ MonitorMemory
    \/ MonitorConnections
    \/ MonitorFail
    \/ BackgroundCleanup
    \/ BackgroundStatus
    \/ BackgroundFail

\* both daemon threads are scheduled again and again; whether a step raises is
\* not up to the scheduler
SpecTasks ==
    InitTicks /\ [][NextTasks]_vars /\ WF_vars(MonitorStep) /\ WF_vars(BackgroundStep)

\* two clients side by side: each registers, is sent commands, fetches them
\* and sends heartbeats
NextPair ==
    \/ \E c \in PairIds, ip \in Ips, h \in Hostnames : RegisterClient(c, ip, h)
    \/ \E c \in PairIds : UpdateHeartbeat(c)
    \/ \E c \in PairIds, n \in CommandNames : AddCommand(c, n, SendLimit(c))
    \/ \E c \in PairIds : GetCommand(c)

SpecPair == Init /\ [][NextPair]_vars

\* admission alone: register calls while the monitor thread samples the host
NextAdmit ==
    \/ \E d \in Deltas : Tick(d)
    \/ \E c \in ClientIds, ip \in Ips, h \in Hostnames : RegisterClient(c, ip, h)
    \/ MonitorCpu
    \/ MonitorMemory
    \/ MonitorConnections
    \/ MonitorFail

SpecAdmit == Init /\ [][NextAdmit]_vars

\* the command queues: one registering client and one unknown identifier, the
\* operator's commands, the registry operations and two heartbeat workers
NextQueue ==
    \/ \E c \in QueueIds, ip \in Ips, h \in Hostnames : RegisterClient(c, ip, h)
    \/ \E c \in QueueIds \cup UnknownIds : UpdateHeartbeat(c)
    \/ \E c \in QueueIds, n \in CommandNames : AddCommand(c, n, MaxSend)
    \/ \E c \in UnknownIds, n \in CommandNames : AddCommand(c, n, MaxSendUnknown)
    \/ \E c \in QueueIds \cup UnknownIds : GetCommand(c)
    \/ BackgroundCleanup
    \/ BackgroundStatus
    \/ \E w \in Workers, c \in QueueIds \cup UnknownIds : ApiHeartbeatTouch(w, c)
    \/ \E w \in Workers : ApiHeartbeatGet(w)

SpecQueue == Init /\ [][NextQueue]_vars

\* the reaper against the queues: one client, its heartbeats and the operator's
\* commands as time passes and the sweep runs
NextReap ==
    \/ \E d \in Deltas : Tick(d)
    \/ \E c \in QueueIds, ip \in Ips, h \in Hostnames : RegisterClient(c, ip, h)
    \/ \E c \in QueueIds, n \in CommandNames : AddCommand(c, n, MaxSendReap)
    \/ BackgroundCleanup
    \/ BackgroundStatus
    \/ \E w \in Workers, c \in QueueIds : ApiHeartbeatTouch(w, c)
    \/ \E w \in Workers : ApiHeartbeatGet(w)

SpecReap == Init /\ [][NextReap]_vars

\* the lock: register requests of two agents and client list requests served by
\* two workers, the lock section of register_client entered and left in
\* separate steps, and the background thread, which runs its lock sections
\* when the lock is free
NextLock ==
    \/ \E d \in Deltas : Tick(d)
    \/ \E w \in Workers, c \in LockIds, a \in Agents : RegisterCall(w, c, a.ip, a.hostname)
    \/ \E w \in Workers : RegisterEnter(w)
    \/ \E w \in Workers : RegisterLeave(w)
    \/ \E w \in Workers : ApiClientsBegin(w)
    \/ \E w \in Workers : ApiClientsNext(w)
    \/ lock = "free" /\ BackgroundCleanup
    \/ lock = "free" /\ BackgroundStatus

SpecLock == Init /\ [][NextLock]_vars

\* the rate limiter: register requests served by two workers, first the rate
\* limiter, then the admission, as time passes
NextRate ==
    \/ \E d \in RateDeltas : Tick(d)
    \/ \E w \in Workers, c \in RateIds, ip \in Ips, h \in Hostnames :
          ApiRegisterAllow(w, c, ip, h)
    \/ \E w \in Workers : ApiRegisterAdmit(w)

SpecRate == Init /\ [][NextRate]_vars

\* the register endpoint: requests for two identifiers and requests without
\* one, served by two workers, the clock standing still
NextRegister ==
    \/ \E w \in Workers, c \in RegisterIds, ip \in Ips, h \in Hostnames :
          ApiRegisterAllow(w, c, ip, h)
    \/ \E w \in Workers : ApiRegisterAdmit(w)

SpecRegister == Init /\ [][NextRegister]_vars

\* the locks: two workers serve register requests, each lock section entered
\* and left in separate steps, while background_tasks and a heartbeat take the
\* manager's lock for their sections
NextDeadlock ==
    \/ \E w \in Workers, c \in RateIds, a \in Agents :
          ApiRegisterBegin(w, c, a.ip, a.hostname)
    \/ \E w \in Workers : AllowEnter(w)
    \/ \E w \in Workers : AllowLeave(w)
    \/ \E w \in Workers : RegisterEnter(w)
    \/ \E w \in Workers : CanAcceptEnter(w)
    \/ \E w \in Workers : CanAcceptLeave(w)
    \/ \E w \in Workers : RegisterStore(w)
    \/ \E c \in LockIds : lock = "free" /\ UpdateHeartbeat(c)
    \/ lock = "free" /\ BackgroundCleanup
    \/ lock = "free" /\ BackgroundStatus

\* the steps of a worker inside a lock section, and its lock acquisitions
LockedStep(w) ==
    AllowLeave(w) \/ CanAcceptEnter(w) \/ CanAcceptLeave(w) \/ RegisterStore(w)
AcquireStep(w) == AllowEnter(w) \/ RegisterEnter(w)

\* a thread inside a section keeps running, and a thread that waits for a
\* lock which is released again and again gets it
SpecDeadlock ==
    /\ Init /\ [][NextDeadlock]_vars
    /\ \A w \in Workers : WF_vars(LockedStep(w)) /\ SF_vars(AcquireStep(w))

\* the register endpoint served by two workers, the client_id of the body
\* being whatever JSON value the sender chose
NextJson ==
    \/ \E w \in Workers, c \in JsonIds, ip \in Ips, h \in Hostnames :
          ApiRegisterAllow(w, c, ip, h)
    \/ \E w \in Workers : ApiRegisterAdmit(w)

SpecJson == Init /\ [][NextJson]_vars

\* the command endpoint: requests for one client and for an identifier that
\* never registers, served by two workers, as time passes and the sweep runs
NextSend ==
    \/ Tick(timeout_seconds + 1)
    \/ \E c \in QueueIds, ip \in Ips, h \in Hostnames : RegisterClient(c, ip, h)
    \/ \E w \in SendWorkers, c \in QueueIds \cup UnknownIds, n \in SendNames :
          ApiSendCommandCheck(w, c, n, MaxSendFull)
    \/ \E w \in SendWorkers : ApiSendCommandAdd(w)
    \/ \E c \in UnknownIds, n \in CommandNames : AddCommand(c, n, MaxSendUnknown)
    \/ BackgroundCleanup
    \/ BackgroundStatus
SpecSend == Init /\ [][NextSend]_vars

\* ---------------------------------------------------------------- claims
\* the entries of a list, as a set
Range(q) == {q[i] : i \in 1..Len(q)}

\* a list holds no value twice
NoRepeat(q) == \A i, j \in 1..Len(q) : i # j => q[i] # q[j]

\* C1: under any interleaving of register_client calls (and the monitor), the
\* number of online clients never exceeds max_clients, and a register_client
\* called while max_clients clients are online returns False and changes nothing.
C1_AdmitRespectsCapacity ==
    [][/\ ActiveClients(clients') <= max_clients
       /\ \A c \in ClientIds, ip \in Ips, h \in Hostnames :
             RegisterClient(c, ip, h) /\ ActiveClients(clients) >= max_clients
                => ret'.val = FALSE /\ clients' = clients]_vars

\* C1 witness: max_clients clients are online and a register_client for one
\* more identifier has just been refused, the host being idle.
C1_Witness ==
    /\ ActiveClients(clients) = max_clients
    /\ ret.op = "register_client"
    /\ ret.val = FALSE
    /\ ret.cid \notin DOMAIN clients
    /\ system_resources.cpu_usage <= CpuLimit
    /\ system_resources.memory_usage <= MemoryLimit
    /\ mon = "cpu"
    /\ system_resources.active_connections = max_clients

\* C2 as claimed: in every reachable state of the lifecycle the number of
\* online clients is at most max_clients.
C2_OnlineWithinMax == ActiveClients(clients) <= max_clients

\* C3: in every reachable state every command queue holds at most QueueLimit
\* (10) commands.
C3_QueueBounded ==
    \A c \in DOMAIN commands_queue : Len(commands_queue[c]) <= QueueLimit

\* C3 witness: a queue is full and more commands than the limit were submitted
\* for it without a get_command in between.
C3_Witness ==
    \E c \in DOMAIN commands_queue :
        /\ Len(commands_queue[c]) = QueueLimit
        /\ burst[c] > QueueLimit
        /\ ret.op = "add_command"

\* C4: per client, the commands get_command returned so far, followed by the
\* commands still queued, are exactly the commands add_command appended, in the
\* order it appended them: what was returned is a prefix of what was appended.
C4_Fifo ==
    \A c \in AllIds : delivered[c] \o QueueOf(commands_queue, c) = appended[c]

\* C4 witness: several commands were returned, others are still queued, and more
\* were appended after the first get_command.
C4_Witness ==
    \E c \in DOMAIN commands_queue :
        /\ Len(delivered[c]) >= 2
        /\ Len(commands_queue[c]) >= 2
        /\ delivered[c][1].data + 1 = delivered[c][2].data
        /\ drain[c].left = <<>>

\* C5: per client, no command is returned twice and no returned command is
\* still (or again) in the queue, also with two heartbeat workers serving the
\* same identifier at once.
C5_AtMostOnce ==
    \A c \in AllIds :
        /\ NoRepeat(delivered[c])
        /\ Range(delivered[c]) \cap Range(QueueOf(commands_queue, c)) = {}
        /\ NoRepeat(QueueOf(commands_queue, c))

\* C5 witness: one worker has just answered a heartbeat of a client with a
\* command while the other worker is inside a heartbeat of the same client,
\* between its update_heartbeat and its get_command, and the queue is empty.
C5_Witness ==
    \E w \in Workers :
        /\ hb[w].pc = "get_command"
        /\ ret.op = "api_heartbeat"
        /\ ret.cid = hb[w].cid
        /\ ret.val.code = 200
        /\ ret.val.command # None
        /\ QueueOf(commands_queue, hb[w].cid) = <<>>

\* C6: once more than QueueLimit commands were submitted for a registered
\* client with no get_command in between, its queue holds exactly QueueLimit
\* commands, oldest first, none of them among the last (burst - QueueLimit)
\* submissions; and the get_command calls that follow return that queue's
\* entries in order.
C6_BurstKeepsEarliest ==
    \A c \in AllIds :
        /\ burst[c] > QueueLimit =>
              /\ Len(QueueOf(commands_queue, c)) = QueueLimit
              /\ \A i \in 1..QueueLimit :
                    commands_queue[c][i].data <= nsent[c] - (burst[c] - QueueLimit)
              /\ \A i \in 1..(QueueLimit - 1) :
                    commands_queue[c][i].data < commands_queue[c][i + 1].data
        /\ drain[c].left # <<>> =>
              /\ Len(drain[c].left) = QueueLimit
              /\ drain[c].got \o QueueOf(commands_queue, c) = drain[c].left

\* C6 witness: after such a burst the queue was emptied by get_command calls,
\* which returned the whole surviving queue.
C6_Witness ==
    \E c \in DOMAIN commands_queue :
        /\ drain[c].left # <<>>
        /\ drain[c].got = drain[c].left
        /\ commands_queue[c] = <<>>

\* C7 as claimed: an add_command on a full queue loses the oldest queued
\* command and keeps the new one.
C7_LosesOldest ==
    [][\A c \in QueueIds, n \in CommandNames :
          /\ AddCommand(c, n, MaxSend)
          /\ c \in DOMAIN clients
          /\ Len(QueueOf(commands_queue, c)) = QueueLimit
          => commands_queue'[c] =
                Append(Tail(commands_queue[c]), Command(n, nsent[c] + 1, now))]_vars

\* C7 amended: an add_command on a full queue loses the newly submitted
\* command; the queue, its oldest entry included, stays as it was.
C7_LosesNewest ==
    [][\A c \in QueueIds, n \in CommandNames :
          /\ AddCommand(c, n, MaxSend)
          /\ c \in DOMAIN clients
          /\ Len(QueueOf(commands_queue, c)) = QueueLimit
          => /\ commands_queue' = commands_queue
             /\ Command(n, nsent[c] + 1, now) \notin Range(commands_queue'[c])]_vars

\* C7 witness: an add_command has just returned on a queue that was already
\* full before it.
C7_Witness ==
    \E c \in DOMAIN clients :
        /\ ret.op = "add_command"
        /\ ret.cid = c
        /\ burst[c] > QueueLimit + 1
        /\ Len(QueueOf(commands_queue, c)) = QueueLimit
        /\ ret.arg \notin Range(commands_queue[c])

\* C8: a get_command that directly follows an add_command(c, cmd) made on the
\* empty queue of a registered client returns exactly cmd and leaves the queue
\* empty; a get_command that directly follows a get_command of the same client
\* and finds the queue empty returns None and changes no queue.
C8_RoundTrip ==
    [][\A c \in QueueIds \cup UnknownIds :
          GetCommand(c) =>
             /\ (/\ ret.op = "add_command"
                 /\ ret.cid = c
                 /\ c \in DOMAIN clients
                 /\ Len(QueueOf(commands_queue, c)) <= 1)
                => /\ ret'.val = ret.arg
                   /\ commands_queue'[c] = <<>>
             /\ (/\ ret.op = "get_command"
                 /\ ret.cid = c
                 /\ QueueOf(commands_queue, c) = <<>>)
                => /\ ret'.val = None
                   /\ commands_queue' = commands_queue]_vars

\* C8 witness: one command was appended and returned, and the get_command after
\* that returned None.
C8_Witness ==
    \E c \in DOMAIN clients :
        /\ ret.op = "get_command"
        /\ ret.cid = c
        /\ ret.val = None
        /\ Len(appended[c]) = 1
        /\ delivered[c] = appended[c]
        /\ nsent[c] = 1

\* C9: update_heartbeat for an identifier without a record returns False and
\* leaves the client map and the queue map as they were.
C9_TouchUnknown ==
    [][\A c \in QueueIds \cup UnknownIds :
          UpdateHeartbeat(c) /\ c \notin DOMAIN clients
             => /\ ret'.val = FALSE
                /\ clients' = clients
                /\ commands_queue' = commands_queue]_vars

\* C9 witness: update_heartbeat has just returned False for an unknown
\* identifier while another client is registered and has commands queued.
C9_Witness ==
    /\ ret.op = "update_heartbeat"
    /\ ret.val = FALSE
    /\ ret.cid \notin DOMAIN clients
    /\ ret.cid \notin DOMAIN commands_queue
    /\ \E c \in DOMAIN clients : QueueOf(commands_queue, c) # <<>>

\* C10: the sweep sets offline every client whose last_seen is more than
\* timeout_seconds old; update_heartbeat on an offline client returns True and
\* changes that record only in status (online) and last_seen (the time of the
\* call), so connection_time stays that of the register_client.
C10_SweepThenTouch ==
    [][/\ BackgroundCleanup =>
             \A c \in DOMAIN clients :
                now - clients[c].last_seen > timeout_seconds
                   => clients'[c].status = "offline"
       /\ \A c \in ClientIds :
             UpdateHeartbeat(c) /\ c \in DOMAIN clients /\ clients[c].status = "offline"
                => /\ ret'.val = TRUE
                   /\ clients' = [clients EXCEPT
                                     ![c] = [clients[c] EXCEPT !.status = "online",
                                                               !.last_seen = now]]]_vars

\* C10 witness: a client that the sweep had set offline has just been touched:
\* it is online, last seen now, and connected more than the timeout ago.
C10_Witness ==
    \E c \in revived :
        /\ ret.op = "update_heartbeat"
        /\ ret.cid = c
        /\ ret.val = TRUE
        /\ clients[c].status = "online"
        /\ clients[c].last_seen = now
        /\ now - clients[c].connection_time > timeout_seconds

\* C11 as claimed: whenever the admission check (register_client) or
\* get_system_status counts the online clients, every client it counts as online
\* was last seen at most timeout_seconds ago.
C11_OnlineIsFresh ==
    [][(\/ \E c \in ClientIds, ip \in Ips, h \in Hostnames : RegisterClient(c, ip, h)
        \/ BackgroundStatus)
          => \A x \in DOMAIN clients :
                clients[x].status = "online"
                   => now - clients[x].last_seen <= timeout_seconds]_vars

\* C12: a register_client that returns False leaves the client map, the queue
\* map and the resource snapshot as they were; and a register_client for an
\* identifier that is online while max_clients clients are online returns False
\* and keeps that identifier's record.
C12_RejectedAdmitChangesNothing ==
    [][\A c \in ClientIds, ip \in Ips, h \in Hostnames :
          RegisterClient(c, ip, h) =>
             /\ ret'.val = FALSE =>
                   /\ clients' = clients
                   /\ commands_queue' = commands_queue
                   /\ system_resources' = system_resources
             /\ (/\ c \in DOMAIN clients
                 /\ clients[c].status = "online"
                 /\ ActiveClients(clients) = max_clients)
                => /\ ret'.val = FALSE
                   /\ clients'[c] = clients[c]]_vars

\* C12 witness: with max_clients clients online and the host idle, a
\* register_client for one of the online identifiers has just been refused, at a
\* time later than that identifier's record shows.
C12_Witness ==
    /\ ret.op = "register_client"
    /\ ret.val = FALSE
    /\ ret.cid \in DOMAIN clients
    /\ clients[ret.cid].status = "online"
    /\ clients[ret.cid].last_seen < now
    /\ ActiveClients(clients) = max_clients
    /\ system_resources.cpu_usage <= CpuLimit
    /\ system_resources.memory_usage <= MemoryLimit

\* C13: register_client returns True exactly when fewer than max_clients clients
\* are online and the snapshot shows cpu_usage <= 80 and memory_usage <= 85; and
\* when it returns True the identifier's record is online with last_seen and
\* connection_time equal to the time of the call.
C13_AdmitExactlyWhen ==
    [][\A c \in ClientIds, ip \in Ips, h \in Hostnames :
          RegisterClient(c, ip, h) =>
             /\ ret'.val = TRUE <=>
                   /\ ActiveClients(clients) < max_clients
                   /\ system_resources.cpu_usage <= CpuLimit
                   /\ system_resources.memory_usage <= MemoryLimit
             /\ ret'.val = TRUE =>
                   /\ c \in DOMAIN clients'
                   /\ clients'[c].status = "online"
                   /\ clients'[c].last_seen = now
                   /\ clients'[c].connection_time = now]_vars

\* C13 witness: a register_client has just returned True, some time after the
\* start, while the snapshot shows exactly 80% cpu and exactly 85% memory.
C13_Witness ==
    /\ ret.op = "register_client"
    /\ ret.val = TRUE
    /\ system_resources.cpu_usage = CpuLimit
    /\ system_resources.memory_usage = MemoryLimit
    /\ now > 0
    /\ clients[ret.cid].last_seen = now
    /\ clients[ret.cid].connection_time = now

\* C14: when register requests for one identifier are served concurrently,
\* every register_client that returns True leaves, under that identifier, one
\* record all of whose fields are those of that call (its address, its
\* hostname, the time of its store, online), adds no other key and raises the
\* online count by at most one; and no other step adds or removes a key or
\* changes a field of a record other than its status.  So in every state each
\* record is the record of one single call.
C14_OneAdmitWins ==
    [][/\ \A w \in Workers :
             RegisterLeave(w) /\ ret'.val = TRUE =>
                /\ clients'[req[w].cid] =
                      [client_id |-> req[w].cid, ip |-> req[w].ip,
                       hostname |-> req[w].hostname, last_seen |-> now,
                       status |-> "online", connection_time |-> now,
                       resource_usage |-> 0, commands_processed |-> 0]
                /\ DOMAIN clients' = DOMAIN clients \cup {req[w].cid}
                /\ ActiveClients(clients') <= ActiveClients(clients) + 1
       /\ (\A w \in Workers : ~(RegisterLeave(w) /\ ret'.val = TRUE)) =>
             /\ DOMAIN clients' = DOMAIN clients
             /\ \A c \in DOMAIN clients :
                   [clients'[c] EXCEPT !.status = "-"] =
                      [clients[c] EXCEPT !.status = "-"]]_vars

\* C14 witness: two workers serve register requests of two agents for the same
\* identifier, after the timeout has passed and the sweep has run: one call has
\* just stored its record (the record shows that agent and the present time),
\* the other is waiting at the lock.
C14_Witness ==
    \E w \in Workers :
        /\ req[w].pc = "acquire"
        /\ ret.op = "register_client"
        /\ ret.val = TRUE
        /\ ret.cid = req[w].cid
        /\ ret.arg # <<req[w].ip, req[w].hostname>>
        /\ clients[ret.cid].ip = ret.arg[1]
        /\ clients[ret.cid].hostname = ret.arg[2]
        /\ clients[ret.cid].connection_time = now
        /\ now > timeout_seconds
        /\ bg = "status"

\* C15 as claimed: no thread reads or iterates the client map while another
\* thread is inside a registry mutation (holds the lock in register_client,
\* about to store): a worker inside the loop of api_clients holds the lock.
C15_NoReadDuringMutation ==
    \A r \in Workers, w \in Workers :
        ~(/\ req[r].pc = "api_clients"
          /\ lock = w
          /\ w # r
          /\ req[w].pc = "register_client")

\* the sum of f[x] over the x in S
RECURSIVE SumOver(_, _)
SumOver(f, S) ==
    IF S = {} THEN 0
    ELSE LET x == CHOOSE y \in S : TRUE
         IN f[x] + SumOver(f, S \ {x})

\* C16: what get_system_status returns describes the registry of the instant of
\* the call, while commands are enqueued and dequeued, clients register and the
\* sweep runs: total_commands_queued is the sum of the lengths of all queues
\* (which is the number of commands appended and not yet returned),
\* active_clients is the number of online records, total_clients the number of
\* records, and active_clients <= total_clients.
C16_StatusConsistent ==
    [][BackgroundStatus =>
          /\ ret'.val.total_commands_queued =
                SumOver([c \in AllIds |-> Len(QueueOf(commands_queue, c))], AllIds)
          /\ ret'.val.total_commands_queued =
                SumOver([c \in AllIds |-> Len(appended[c]) - Len(delivered[c])], AllIds)
          /\ ret'.val.active_clients =
                Cardinality({c \in DOMAIN clients : clients[c].status = "online"})
          /\ ret'.val.total_clients = Cardinality(DOMAIN clients)
          /\ ret'.val.active_clients <= ret'.val.total_clients]_vars

\* C16 witness: get_system_status has just reported several queued commands
\* while commands had already been returned and a worker is inside a heartbeat
\* of the client, between its update_heartbeat and its get_command.
C16_Witness ==
    /\ ret.op = "get_system_status"
    /\ ret.val.total_commands_queued >= 2
    /\ ret.val.total_clients = 1
    /\ \E c \in DOMAIN clients : delivered[c] # <<>>
    /\ \E w \in Workers : hb[w].pc = "get_command"

\* C17: no step removes a record from the client map: the set of known
\* identifiers only grows and the number of records never decreases.
C17_RecordsNeverDestroyed ==
    [][/\ DOMAIN clients \subseteq DOMAIN clients'
       /\ Cardinality(DOMAIN clients') >= Cardinality(DOMAIN clients)]_vars

\* C17 witness: the sweep has just run, one client it found inactive is offline
\* and still has its record, and another client has registered since.
C17_Witness ==
    /\ ret.op = "cleanup_inactive_clients"
    /\ \E c \in DOMAIN clients, d \in DOMAIN clients :
          /\ clients[c].status = "offline"
          /\ now - clients[c].last_seen > timeout_seconds
          /\ clients[d].status = "online"
          /\ clients[d].connection_time > clients[c].connection_time

\* C18: cleanup_inactive_clients sets offline exactly the clients last seen
\* strictly more than timeout_seconds ago: a client whose age equals the
\* timeout keeps its status, the clients already offline stay offline, and no
\* other field of any record changes; and running it once more at the same
\* time on the state it leaves changes nothing.
C18_SweepExactAndIdempotent ==
    [][BackgroundCleanup =>
          /\ DOMAIN clients' = DOMAIN clients
          /\ \A c \in DOMAIN clients :
                /\ [clients'[c] EXCEPT !.status = "-"] = [clients[c] EXCEPT !.status = "-"]
                /\ clients'[c].status = "offline" <=>
                      \/ clients[c].status = "offline"
                      \/ now - clients[c].last_seen > timeout_seconds
                /\ now - clients[c].last_seen = timeout_seconds
                      => clients'[c].status = clients[c].status
          /\ Swept(clients', now, timeout_seconds) = clients']_vars

\* C18 witness: the sweep has just run at a time when one online client was
\* last seen exactly timeout_seconds ago (and is still online) and another more
\* than that (and is offline).
C18_Witness ==
    /\ ret.op = "cleanup_inactive_clients"
    /\ bg = "status"
    /\ \E c \in DOMAIN clients, d \in DOMAIN clients :
          /\ now - clients[c].last_seen = timeout_seconds
          /\ clients[c].status = "online"
          /\ now - clients[d].last_seen > timeout_seconds
          /\ clients[d].status = "offline"

\* C19: the sweep leaves every queue as it was; a command submitted for a client
\* that is offline is appended like any other; and a heartbeat's get_command
\* returns the oldest queued command whatever happened to the client's status,
\* so that what the heartbeats returned, followed by what is queued, is always
\* what was appended, in order.
C19_SweepLeavesQueues ==
    [][/\ BackgroundCleanup => commands_queue' = commands_queue
       /\ \A c \in QueueIds, n \in CommandNames :
             (/\ AddCommand(c, n, MaxSendReap)
              /\ c \in DOMAIN clients
              /\ clients[c].status = "offline")
             => commands_queue'[c] =
                   Append(QueueOf(commands_queue, c), Command(n, nsent[c] + 1, now))
       /\ \A w \in Workers :
             ApiHeartbeatGet(w) /\ QueueOf(commands_queue, hb[w].cid) # <<>>
                => ret'.val.command = Head(commands_queue[hb[w].cid])
       /\ \A c \in QueueIds :
             delivered'[c] \o QueueOf(commands_queue', c) = appended'[c]]_vars

\* C19 witness: a client the sweep has set offline still has a command queued
\* more than timeout_seconds ago, and a second command has just been appended
\* behind it while the client is offline.
C19_Witness ==
    \E c \in DOMAIN clients :
        /\ clients[c].status = "offline"
        /\ ret.op = "add_command"
        /\ ret.cid = c
        /\ Len(QueueOf(commands_queue, c)) = 2
        /\ commands_queue[c][2] = ret.arg
        /\ commands_queue[c][1].timestamp + timeout_seconds < now
        /\ delivered[c] = <<>>

\* C20: with the background thread scheduled again and again, a client that is
\* online and was last seen more than timeout_seconds ago eventually is offline,
\* unless a heartbeat or a successful register refreshes its last_seen first;
\* and an offline client stays offline in every step that is not an
\* update_heartbeat or a register_client for it.
C20_EventuallyOffline ==
    /\ \A c \in LiveIds :
          (/\ c \in DOMAIN clients
           /\ clients[c].status = "online"
           /\ now - clients[c].last_seen > timeout_seconds)
          ~> (/\ c \in DOMAIN clients
              /\ \/ clients[c].status = "offline"
                 \/ now - clients[c].last_seen <= timeout_seconds)
    /\ [][\A c \in DOMAIN clients :
             (/\ clients[c].status = "offline"
              /\ ~UpdateHeartbeat(c)
              /\ ~(\E ip \in Ips, h \in Hostnames : RegisterClient(c, ip, h)))
             => clients'[c].status = "offline"]_vars

\* C20 witness: a client that sent nothing for more than timeout_seconds is
\* offline after the sweep, and the background thread has gone on to a later
\* round while the client is still offline.
C20_Witness ==
    \E c \in DOMAIN clients :
        /\ clients[c].status = "offline"
        /\ now - clients[c].last_seen > timeout_seconds
        /\ c \notin revived
        /\ ret.op = "get_system_status"
        /\ ret.val.active_clients < ret.val.total_clients
        /\ bg = "cleanup"

\* C21: the list of recorded times never holds more than max_connections
\* entries; any max_connections + 1 calls of allow_connection that returned True
\* span at least 60 seconds, so fewer than that many fall in any shorter
\* interval; a call made when max_connections calls returned True less than 60
\* seconds before returns False (429); and a call made when every recorded time
\* is at least 61 seconds old returns True.
C21_RateLimited ==
    [][/\ Len(connection_times') <= max_connections
       /\ \A i \in 1..(Len(allowed') - max_connections) :
             allowed'[i + max_connections] - allowed'[i] >= Window
       /\ \A w \in Workers, c \in RateIds, ip \in Ips, h \in Hostnames :
             ApiRegisterAllow(w, c, ip, h) =>
                /\ (/\ Len(allowed) >= max_connections
                    /\ now - allowed[Len(allowed) - max_connections + 1] < Window)
                   => /\ ret'.val = [code |-> 429]
                      /\ allowed' = allowed
                /\ (\A i \in 1..Len(connection_times) :
                       now - connection_times[i] >= Window + 1)
                   => allowed' = Append(allowed, now)]_vars

\* C21 witness: max_connections calls returned True at one instant, one more at
\* that instant returned False, and a call 61 seconds later returned True.
C21_Witness ==
    /\ Len(allowed) = max_connections + 1
    /\ allowed[max_connections] = allowed[1]
    /\ denied = allowed[1]
    /\ allowed[max_connections + 1] = allowed[1] + Window + 1
    /\ now = allowed[max_connections + 1]

\* C22 as claimed: an allow_connection that returns False leaves exactly the
\* pruned list, and the pruning removes only the times older than 60 seconds:
\* every recorded time that is at most 60 seconds old is still in the list after
\* the call.
C22_PrunesOnlyOlder ==
    [][\A w \in Workers, c \in RateIds, ip \in Ips, h \in Hostnames :
          ApiRegisterAllow(w, c, ip, h) =>
             /\ (ret'.val = [code |-> 429] /\ req' = req) =>
                   connection_times' =
                      SelectSeq(connection_times, LAMBDA x : now - x < Window)
             /\ \A i \in 1..Len(connection_times) :
                   now - connection_times[i] <= Window
                      => connection_times[i] \in Range(connection_times')]_vars

\* C23: a register request evaluates the rate limiter once, before anything
\* else: the step that does so leaves the registry alone, records at most the
\* one attempt, answers 429 exactly when the limiter refuses and 400 exactly when
\* it allows a request without client_id; only an allowed request with a
\* client_id goes on to register_client, whose step leaves the limiter alone and
\* answers 200 when it admits (the record is there, online) and 503 when it
\* refuses (the registry is unchanged).
C23_RegisterSignals ==
    [][/\ \A w \in Workers, c \in RegisterIds, ip \in Ips, h \in Hostnames :
             ApiRegisterAllow(w, c, ip, h) =>
                LET full == Len(SelectSeq(connection_times,
                                          LAMBDA x : now - x < Window)) >= max_connections
                    answered == req' = req
                IN /\ clients' = clients
                   /\ commands_queue' = commands_queue
                   /\ allowed' = IF full THEN allowed ELSE Append(allowed, now)
                   /\ full <=> (answered /\ ret'.val = [code |-> 429])
                   /\ (~full /\ c = "") <=> (answered /\ ret'.val = [code |-> 400])
                   /\ (~full /\ c # "") <=>
                         (/\ req'[w].pc = "register"
                          /\ req'[w].cid = c
                          /\ ret' = ret)
       /\ \A w \in Workers :
             ApiRegisterAdmit(w) =>
                /\ req[w].cid # ""
                /\ <<connection_times', allowed', denied'>> =
                      <<connection_times, allowed, denied>>
                /\ ret'.val.code \in {200, 503}
                /\ ret'.val.code = 200 <=>
                      /\ ActiveClients(clients) < max_clients
                      /\ system_resources.cpu_usage <= CpuLimit
                      /\ system_resources.memory_usage <= MemoryLimit
                /\ ret'.val.code = 200 =>
                      /\ req[w].cid \in DOMAIN clients'
                      /\ clients'[req[w].cid].status = "online"
                /\ ret'.val.code = 503 => clients' = clients]_vars

\* C23 witness: with max_clients clients online, a request the limiter allowed
\* has just been answered 503, after another request was answered by the
\* limiter's refusal.
C23_Witness ==
    /\ ret.op = "api_register"
    /\ ret.val = [code |-> 503]
    /\ ret.cid # ""
    /\ ActiveClients(clients) = max_clients
    /\ Len(allowed) = max_connections
    /\ denied = now

\* C24: a heartbeat for an identifier without a record is answered 404, goes on
\* to no get_command and changes neither map; a heartbeat for a known identifier
\* sets its record online with last_seen the time of the call, changing nothing
\* else, and its answer carries the oldest queued command of that client, which
\* leaves the queue, or no command when the queue is empty.
C24_Heartbeat ==
    [][/\ \A w \in Workers, c \in QueueIds :
             ApiHeartbeatTouch(w, c) =>
                IF c \notin DOMAIN clients
                THEN /\ ret'.val = [code |-> 404]
                     /\ ret'.cid = c
                     /\ hb' = hb
                     /\ clients' = clients
                     /\ commands_queue' = commands_queue
                ELSE /\ clients' = [clients EXCEPT ![c].status = "online",
                                                   ![c].last_seen = now]
                     /\ commands_queue' = commands_queue
                     /\ hb'[w] = [pc |-> "get_command", cid |-> c]
       /\ \A w \in Workers :
             ApiHeartbeatGet(w) =>
                LET c == hb[w].cid
                IN /\ ret'.cid = c
                   /\ ret'.val.code = 200
                   /\ clients' = clients
                   /\ IF QueueOf(commands_queue, c) = <<>>
                      THEN /\ ret'.val.command = None
                           /\ commands_queue' = commands_queue
                      ELSE /\ ret'.val.command = commands_queue[c][1]
                           /\ commands_queue' =
                                 [commands_queue EXCEPT ![c] = Tail(commands_queue[c])]]_vars

\* C24 witness: the heartbeat of a client that the sweep had set offline has
\* just been answered with the older of its two queued commands; the client is
\* online again and the newer command is still queued.
C24_Witness ==
    \E c \in revived :
        /\ ret.op = "api_heartbeat"
        /\ ret.cid = c
        /\ ret.val.code = 200
        /\ Len(appended[c]) = 2
        /\ ret.val.command = appended[c][1]
        /\ clients[c].status = "online"
        /\ now - clients[c].connection_time > timeout_seconds
        /\ Len(QueueOf(commands_queue, c)) = 1
        /\ commands_queue[c][1] = appended[c][2]

\* C25: api_send_command for an identifier that is not registered answers 404
\* and leaves every queue as it was, creating none for that identifier, and
\* add_command for such an identifier changes nothing; for a registered
\* identifier, online or offline, the answer is 200 both when the command
\* was appended and when the full queue dropped it
C25_SendCommand ==
    [][ /\ \A w \in SendWorkers, c \in QueueIds \cup UnknownIds, n \in CommandNames :
             (ApiSendCommandCheck(w, c, n, MaxSendFull) /\ c \notin DOMAIN clients)
             => /\ ret' = Returned("api_send_command", c, n, [code |-> 404])
                /\ commands_queue' = commands_queue
                /\ c \notin DOMAIN commands_queue'
                /\ req' = req
        /\ \A c \in UnknownIds, n \in CommandNames :
             (AddCommand(c, n, MaxSendUnknown) /\ c \notin DOMAIN clients)
             => /\ commands_queue' = commands_queue
                /\ clients' = clients
        /\ \A w \in SendWorkers :
             (ApiSendCommandAdd(w) /\ req[w].cid \in DOMAIN clients)
             => /\ ret'.val = [code |-> 200]
                /\ commands_queue' =
                     IF Len(QueueOf(commands_queue, req[w].cid)) < QueueLimit
                     THEN [c \in DOMAIN commands_queue \cup {req[w].cid} |->
                             IF c = req[w].cid
                             THEN Append(QueueOf(commands_queue, c), ret'.arg)
                             ELSE commands_queue[c]]
                     ELSE commands_queue
      ]_vars

\* C25 witness: an offline client whose queue is full was sent a command, the
\* answer was 200, and the command is in no queue
C25_Witness ==
    /\ ret # None
    /\ ret.op = "api_send_command"
    /\ ret.val = [code |-> 200]
    /\ ret.cid \in DOMAIN clients
    /\ clients[ret.cid].status = "offline"
    /\ Len(QueueOf(commands_queue, ret.cid)) = QueueLimit
    /\ ret.arg \notin Range(commands_queue[ret.cid])

\* the fields of the snapshot that a tick has written were written by one tick
OneTick(age) ==
    \A f, g \in DOMAIN age : (age[f] >= 0 /\ age[g] >= 0) => age[f] = age[g]

\* C26: when the admission check or get_system_status reads the snapshot, the
\* cpu, memory and online-count values that monitor ticks have written all
\* come from the same tick
C26_SnapshotOfOneTick ==
    [][ (\/ ApiSystemStatus
         \/ BackgroundStatus
         \/ \E c \in QueueIds, ip \in Ips, h \in Hostnames : RegisterClient(c, ip, h))
        => OneTick(mtick.age) ]_vars

\* C27: when a statement of a monitor tick raises, the snapshot is the one the
\* tick started with
C27_FailedTickRetains ==
    [][ MonitorFail => system_resources' = mtick'.before ]_vars

\* C28: a tick that raises ends neither the monitor thread nor
\* background_tasks: each of them ends tick after tick for ever, and a failed
\* tick is followed by the end of another tick
C28_TasksKeepTicking ==
    /\ []<>(mtick.beat = 0) /\ []<>(mtick.beat = 1)
    /\ []<>(btick.beat = 0) /\ []<>(btick.beat = 1)
    /\ (mtick.fail = "failed") ~> (mtick.fail = "again")
    /\ (btick.fail = "failed") ~> (btick.fail = "again")

\* C28 witness: both loops had a tick that raised and have ended a tick since
C28_Witness ==
    /\ mtick.fail = "again"
    /\ btick.fail = "again"
    /\ mon = "memory"
    /\ bg = "status"

\* C29: get_command leaves every client record as it is; for an identifier
\* that is not registered or whose queue is empty it returns None and changes
\* neither the client map, the queues nor the snapshot, and the identifier has
\* a queue entry afterwards only if it had one before
C29_GetCommandFrame ==
    [][ \A c \in QueueIds \cup UnknownIds :
          GetCommand(c)
          => /\ clients' = clients
             /\ (c \notin DOMAIN clients \/ QueueOf(commands_queue, c) = <<>>)
                => /\ ret'.val = None
                   /\ commands_queue' = commands_queue
                   /\ DOMAIN commands_queue' = DOMAIN commands_queue
                   /\ system_resources' = system_resources
      ]_vars

\* C29 witness: get_command returned None for an identifier that never
\* registered, which has no queue entry, while a registered client has
\* commands waiting
C29_Witness ==
    /\ ret.op = "get_command"
    /\ ret.val = None
    /\ ret.cid \in UnknownIds
    /\ ret.cid \notin DOMAIN clients
    /\ ret.cid \notin DOMAIN commands_queue
    /\ \E c \in DOMAIN clients : QueueOf(commands_queue, c) # <<>>

\* C30: register_client, update_heartbeat, add_command and get_command for one
\* client leave the queue and the record of the other client as they are, and
\* add_command for a registered client whose own queue is not full appends the
\* command, also while the queue of the other client is full
C30_QueuesIsolated ==
    [][ \A a, b \in PairIds :
          a # b =>
          /\ (\/ \E ip \in Ips, h \in Hostnames : RegisterClient(a, ip, h)
              \/ UpdateHeartbeat(a)
              \/ \E n \in CommandNames : AddCommand(a, n, SendLimit(a))
              \/ GetCommand(a))
             => /\ QueueOf(commands_queue', b) = QueueOf(commands_queue, b)
                /\ (b \in DOMAIN commands_queue') = (b \in DOMAIN commands_queue)
                /\ (b \in DOMAIN clients') = (b \in DOMAIN clients)
                /\ b \in DOMAIN clients => clients'[b] = clients[b]
          /\ ((\E n \in CommandNames : AddCommand(b, n, SendLimit(b)))
              /\ b \in DOMAIN clients
              /\ Len(QueueOf(commands_queue, b)) < QueueLimit)
             => QueueOf(commands_queue', b) = Append(QueueOf(commands_queue, b), ret'.arg)
      ]_vars

\* C30 witness: the queue of c1 is full and has dropped a command, and a
\* command sent to c2 after that is in the queue of c2
C30_Witness ==
    /\ burst["c1"] = QueueLimit + 1
    /\ Len(QueueOf(commands_queue, "c1")) = QueueLimit
    /\ ret.op = "add_command"
    /\ ret.cid = "c2"
    /\ ret.arg \in Range(QueueOf(commands_queue, "c2"))

\* C31: every key of the client map is a string and is not empty
C31_KeysAreNonEmptyStrings ==
    \A k \in DOMAIN clients : k # "" /\ k \notin NumberIds

C33_FullQueueFrame ==
    [][ \A c \in QueueIds, n \in CommandNames :
          (/\ AddCommand(c, n, MaxSend)
           /\ c \in DOMAIN clients
           /\ Len(QueueOf(commands_queue, c)) = QueueLimit)
          => /\ Len(commands_queue'[c]) = QueueLimit
             /\ \A i \in 1..QueueLimit : commands_queue'[c][i] = commands_queue[c][i]
             /\ \A x \in DOMAIN commands_queue' : ret'.arg \notin Range(commands_queue'[x])
             /\ DOMAIN commands_queue' = DOMAIN commands_queue
             /\ \A x \in DOMAIN commands_queue \ {c} : commands_queue'[x] = commands_queue[x]
             /\ clients' = clients
             /\ system_resources' = system_resources
             /\ ret'.op = "add_command"
             /\ ret'.val = None
      ]_vars

\* C33 witness: the eleventh command in a row was submitted to a client that
\* fetched none; the queue is the ten commands appended before it, in order
C33_Witness ==
    \E c \in DOMAIN clients :
        /\ ret.op = "add_command"
        /\ ret.cid = c
        /\ burst[c] = QueueLimit + 1
        /\ delivered[c] = <<>>
        /\ Len(appended[c]) = QueueLimit
        /\ QueueOf(commands_queue, c) = appended[c]
        /\ ret.arg.data = nsent[c]

\* C34: a register_client that succeeds for an identifier which has a record
\* stores a fresh record (last_seen and connection_time now, status online,
\* commands_processed 0) and leaves every queue as it was; and what was
\* appended to a queue and not yet returned is still queued, in order
C34_ReadmitKeepsQueue ==
    /\ [][ \A c \in QueueIds, ip \in Ips, h \in Hostnames :
             (RegisterClient(c, ip, h) /\ c \in DOMAIN clients /\ ret'.val = TRUE)
             => /\ clients'[c].last_seen = now
                /\ clients'[c].connection_time = now
                /\ clients'[c].status = "online"
                /\ clients'[c].commands_processed = 0
                /\ commands_queue' = commands_queue
         ]_vars
    /\ [](\A c \in QueueIds :
             delivered[c] \o QueueOf(commands_queue, c) = appended[c])

\* C34 witness: two commands were queued, the client registered again at a
\* later time, and a heartbeat then fetched the second of them
C34_Witness ==
    \E c \in DOMAIN clients :
        /\ ret.op = "api_heartbeat"
        /\ ret.cid = c
        /\ ret.val.code = 200
        /\ Len(appended[c]) = 2
        /\ ret.val.command = appended[c][2]
        /\ delivered[c] = appended[c]
        /\ appended[c][2].timestamp < clients[c].connection_time

\* C35: every identifier that has an entry in the queue map has a record in
\* the client map
C35_QueuesOfClientsOnly ==
    DOMAIN commands_queue \subseteq DOMAIN clients

\* C35 witness: commands were submitted for an identifier that never
\* registered and get_command was called for it; it has no queue entry,
\* while a registered client has one
C35_Witness ==
    /\ ret.op = "get_command"
    /\ ret.cid \in UnknownIds
    /\ nsent[ret.cid] > 0
    /\ ret.cid \notin DOMAIN clients
    /\ ret.cid \notin DOMAIN commands_queue
    /\ DOMAIN commands_queue # {}
====
